---- MODULE Spec2Model ----
(***************************************************************************)
(* powertui: a terminal utility that shows battery telemetry read from     *)
(* sysfs and switches the CPU frequency governor through `sudo cpupower`.  *)
(* The module models src/main.rs: the profile registry, the telemetry      *)
(* reader, the governor controller, the application state and the event    *)
(* loop.                                                                   *)
(*                                                                         *)
(* Conventions                                                             *)
(*  - Option<T>: None is the empty tuple, Some(x) the one-element tuple.   *)
(*  - A Rust string is the tuple of its characters, so that trim(),        *)
(*    format!() and comparisons act on the text itself.                    *)
(*  - An enum variant is the TLA+ string of its name.                      *)
(*  - Indices are 0-based as in the source; all[i] of the source is        *)
(*    all[i + 1] here.                                                     *)
(***************************************************************************)
EXTENDS Integers, Sequences, FiniteSets, TLC

VARIABLES
    battery,            \* App.battery: Option<BatteryInfo>
    current_profile,    \* App.current_profile: Option<Profile>
    selected,           \* App.selected: usize
    list_state,         \* App.list_state: the selected row of the ListState
    message,            \* App.message: Option<String>
    power_supply,       \* /sys/class/power_supply as the last telemetry read found it
    scaling_governor,   \* cpu0/cpufreq/scaling_governor as the last read found it
    sudo,               \* the last privileged command run: its arguments and outcome
    invocations,        \* how many times the privileged command has been run
    presses,            \* how many presses of a select key the loop has read
    key,                \* the key code of the last key press the loop read
    pc                  \* position of main(): "new", "loop", "exit", "panic"

vars == <<battery, current_profile, selected, list_state, message,
          power_supply, scaling_governor, sudo, invocations, presses, key, pc>>

----------------------------------------------------------------------------
(* Option *)

None == <<>>
Some(x) == <<x>>
IsSome(o) == o # None
Unwrap(o) == o[1]

----------------------------------------------------------------------------
(* Text *)

WhiteSpace == {" ", "\n", "\t"}

RECURSIVE trim_start(_)
trim_start(s) ==
    IF s # <<>> /\ Head(s) \in WhiteSpace THEN trim_start(Tail(s)) ELSE s

RECURSIVE trim_end(_)
trim_end(s) ==
    IF s # <<>> /\ s[Len(s)] \in WhiteSpace
    THEN trim_end(SubSeq(s, 1, Len(s) - 1))
    ELSE s

\* str::trim: the text without its leading and trailing white space.
trim(s) == trim_end(trim_start(s))

\* Whether text `sub` occurs in text `s`.
Contains(s, sub) ==
    \E i \in 1..(Len(s) - Len(sub) + 1) : SubSeq(s, i, i + Len(sub) - 1) = sub

----------------------------------------------------------------------------
(* Profile registry *)

Profile == {"PowerSaver", "Balanced", "Performance"}

all == <<"PowerSaver", "Balanced", "Performance">>

name(p) ==
    CASE p = "PowerSaver"  -> <<"P","o","w","e","r"," ","S","a","v","e","r">>
      [] p = "Balanced"    -> <<"B","a","l","a","n","c","e","d">>
      [] p = "Performance" -> <<"P","e","r","f","o","r","m","a","n","c","e">>

\* governor() with the identifier of PowerSaver pasted into the arm of Balanced.
governor_pasted(p) ==
    CASE p = "PowerSaver"  -> <<"p","o","w","e","r","s","a","v","e">>
      [] p = "Balanced"    -> <<"p","o","w","e","r","s","a","v","e">>
      [] p = "Performance" -> <<"p","e","r","f","o","r","m","a","n","c","e">>

governor(p) ==
    CASE p = "PowerSaver"  -> <<"p","o","w","e","r","s","a","v","e">>
      [] p = "Balanced"    -> <<"s","c","h","e","d","u","t","i","l">>
      [] p = "Performance" -> <<"p","e","r","f","o","r","m","a","n","c","e">>

\* from_governor() whose last arm falls back to Balanced instead of None.
from_governor_fallback(gov) ==
    LET t == trim(gov) IN
    CASE t = <<"p","o","w","e","r","s","a","v","e">>         -> Some("PowerSaver")
      [] t = <<"s","c","h","e","d","u","t","i","l">>         -> Some("Balanced")
      [] t = <<"p","e","r","f","o","r","m","a","n","c","e">> -> Some("Performance")
      [] OTHER -> Some("Balanced")

from_governor(gov) ==
    LET t == trim(gov) IN
    CASE t = <<"p","o","w","e","r","s","a","v","e">>         -> Some("PowerSaver")
      [] t = <<"s","c","h","e","d","u","t","i","l">>         -> Some("Balanced")
      [] t = <<"p","e","r","f","o","r","m","a","n","c","e">> -> Some("Performance")
      [] OTHER -> None

\* read_current_governor: `file` is the result of fs::read_to_string(..).ok().
read_current_governor(file) ==
    IF file = None THEN None ELSE from_governor(Unwrap(file))

----------------------------------------------------------------------------
(* Governor controller *)

Ok == [ok |-> TRUE]
Err(e) == [ok |-> FALSE, err |-> e]

\* What running the command can come to: the process is launched and exits
\* with success or with another status, or it cannot be launched and the
\* io::Error carries a text.
LaunchErrors ==
    { <<"N","o"," ","s","u","c","h"," ","f","i","l","e"," ","o","r"," ","d","i","r",
        "e","c","t","o","r","y"," ","(","o","s"," ","e","r","r","o","r"," ","2",")">>,
      <<"P","e","r","m","i","s","s","i","o","n"," ","d","e","n","i","e","d"," ",
        "(","o","s"," ","e","r","r","o","r"," ","1","3",")">> }

Outcomes ==
    {[launched |-> TRUE, success |-> TRUE], [launched |-> TRUE, success |-> FALSE]}
    \cup {[launched |-> FALSE, error |-> e] : e \in LaunchErrors}

\* The argument vector handed to Command::new("sudo").
command_args(gov) ==
    << <<"-","n">>, <<"c","p","u","p","o","w","e","r">>,
       <<"f","r","e","q","u","e","n","c","y","-","s","e","t">>, <<"-","g">>, gov >>

set_governor(gov, outcome) ==
    IF ~outcome.launched THEN Err(outcome.error)
    ELSE IF outcome.success THEN Ok
    ELSE Err(<<"N","e","e","d"," ","p","a","s","s","w","o","r","d","l","e","s","s"," ",
               "s","u","d","o"," ","f","o","r"," ","c","p","u","p","o","w","e","r">>)

----------------------------------------------------------------------------
(* f64 and the integer casts *)

(* An f64 is a NaN, an infinity or a finite value.  A finite value is a    *)
(* sign, an integer part ip and the digits fr after the point in base      *)
(* 2^LimbBits, so its magnitude is ip + SUM fr[j] * Base^-j; it never      *)
(* holds more than F64Bits significant bits.  The operations below are the *)
(* IEEE-754 ones (round to nearest, ties to even) on the operands the      *)
(* program gives them: the numbers it parses are integers, and what it     *)
(* multiplies by is 60 or 100.                                             *)

F64Bits == 53

\* The digits after the point are in base 2^LimbBits = 65536, so that a digit
\* times 60 or 100 stays within the integers of the model checker.
Pow2 == <<1, 2, 4, 8, 16, 32, 64, 128, 256, 512, 1024, 2048, 4096, 8192,
          16384, 32768, 65536>>
LimbBits == Len(Pow2) - 1
Base == Pow2[LimbBits + 1]

NaN == [k |-> "nan"]
Inf(neg) == [k |-> "inf", neg |-> neg]
Fin(neg, ip, fr) == [k |-> "fin", neg |-> neg, ip |-> ip, fr |-> fr]

Abs(n) == IF n < 0 THEN -n ELSE n

from_int(n) == Fin(n < 0, Abs(n), <<>>)

IsIntegral(x) == x.k = "fin" /\ \A j \in 1..Len(x.fr) : x.fr[j] = 0

IsZero(x) == IsIntegral(x) /\ x.ip = 0

\* The integer an integral finite value stands for.
IntOf(x) == IF x.neg THEN -x.ip ELSE x.ip

RECURSIVE BitLen(_)
BitLen(n) == IF n = 0 THEN 0 ELSE 1 + BitLen(n \div 2)

\* The number of zero bits fr starts with (fr has a digit that is not 0).
LeadingZeros(fr) ==
    LET j == CHOOSE i \in 1..Len(fr) : fr[i] # 0 /\ \A l \in 1..(i - 1) : fr[l] = 0
    IN (j - 1) * LimbBits + (LimbBits - BitLen(fr[j]))

\* ip.fr plus `unit` in the last digit of fr, with the carries it causes.
Increment(neg, ip, fr, unit) ==
    LET n    == Len(fr)
        last == fr[n] + unit
        free == {i \in 1..(n - 1) : fr[i] # Base - 1}
    IN
    IF n = 0 THEN Fin(neg, ip + 1, fr)
    ELSE IF last < Base THEN Fin(neg, ip, [fr EXCEPT ![n] = last])
    ELSE IF free = {}
    THEN Fin(neg, ip + 1, [i \in 1..n |-> 0])
    ELSE LET j == CHOOSE i \in free : \A l \in free : l <= i IN
         Fin(neg, ip, [i \in 1..n |-> IF i < j THEN fr[i]
                                       ELSE IF i = j THEN fr[i] + 1 ELSE 0])

\* The exact magnitude ip.fr rounded to F64Bits significant bits, to the
\* nearest and a tie to the even one.
Round(neg, ip, fr) ==
    IF \A j \in 1..Len(fr) : fr[j] = 0 THEN Fin(neg, ip, <<>>)
    ELSE
    LET keep == IF ip > 0 THEN F64Bits - BitLen(ip)
                ELSE LeadingZeros(fr) + F64Bits          \* bits kept after the point
        kl   == keep \div LimbBits                       \* digits kept whole
        kb   == keep % LimbBits                          \* bits kept of the next digit
    IN
    IF Len(fr) * LimbBits <= keep THEN Fin(neg, ip, fr)
    ELSE LET p      == fr[kl + 1]
             unit   == Pow2[LimbBits - kb + 1]
             low    == p % unit
             half   == low >= unit \div 2
             sticky == low % (unit \div 2) # 0
                       \/ \E j \in (kl + 2)..Len(fr) : fr[j] # 0
             odd    == IF kb > 0 THEN (p \div unit) % 2 = 1
                       ELSE IF kl > 0 THEN fr[kl] % 2 = 1
                       ELSE ip % 2 = 1
             kept   == IF kb > 0 THEN SubSeq(fr, 1, kl) \o <<p - low>>
                       ELSE SubSeq(fr, 1, kl)
         IN IF half /\ (sticky \/ odd)
            THEN Increment(neg, ip, kept, IF kb > 0 THEN unit ELSE 1)
            ELSE Fin(neg, ip, kept)

\* 2^n mod d, by squaring.
RECURSIVE Pow2Mod(_, _)
Pow2Mod(n, d) ==
    IF n = 0 THEN 1 % d
    ELSE LET h == Pow2Mod(n \div 2, d)
             sq == (h * h) % d
         IN IF n % 2 = 0 THEN sq ELSE (2 * sq) % d

\* What is left of r after j digits of the long division r / d.
DivRem(r, d, j) == (r * Pow2Mod(j * LimbBits, d)) % d

\* The first cnt digits of r / d after the point (0 <= r < d), followed by
\* one more digit that says whether anything is left beyond them.
DivDigits(r, d, cnt) ==
    [j \in 1..cnt |-> (DivRem(r, d, j - 1) * Base) \div d]
    \o (IF DivRem(r, d, cnt) # 0 THEN <<1>> ELSE <<>>)

\* The number of zero bits r / d starts with after the point (0 < r < d).
RECURSIVE DivLeadingZeros(_, _)
DivLeadingZeros(r, d) ==
    IF 2 * r >= d THEN 0 ELSE 1 + DivLeadingZeros(2 * r, d)

\* x / y for integral x and y.
f64_div(x, y) ==
    IF x.k # "fin" \/ y.k # "fin" THEN NaN
    ELSE IF IsZero(y) THEN (IF IsZero(x) THEN NaN ELSE Inf(x.neg # y.neg))
    ELSE LET n    == x.ip
             d    == y.ip
             neg  == x.neg # y.neg
             ip   == n \div d
             r    == n % d
             keep == IF ip > 0 THEN F64Bits - BitLen(ip)
                     ELSE IF r > 0 THEN DivLeadingZeros(r, d) + F64Bits ELSE 0
         IN Round(neg, ip, DivDigits(r, d, (keep + LimbBits) \div LimbBits))

\* The carry of fr * c out of digits j+1 .. n into digit j.
RECURSIVE MulCarry(_, _, _)
MulCarry(fr, c, j) ==
    IF j >= Len(fr) THEN 0
    ELSE (fr[j + 1] * c + MulCarry(fr, c, j + 1)) \div Base

\* x * c for a positive integer c.
f64_mul(x, c) ==
    IF x.k # "fin" THEN x
    ELSE Round(x.neg, x.ip * c + MulCarry(x.fr, c, 0),
               [j \in 1..Len(x.fr) |-> (x.fr[j] * c + MulCarry(x.fr, c, j)) % Base])

\* x - y where the difference is exact: both integral, or y an integer
\* between 0 and x, or y zero.
f64_sub(x, y) ==
    CASE IsIntegral(x) /\ IsIntegral(y) -> from_int(IntOf(x) - IntOf(y))
      [] ~IsIntegral(x) /\ IsZero(y) -> x
      [] ~IsIntegral(x) /\ ~IsZero(y) /\ IsIntegral(y)
           /\ ~x.neg /\ ~y.neg /\ y.ip <= x.ip -> Fin(FALSE, x.ip - y.ip, x.fr)

\* `x as uN` with max = 2^N - 1: truncation toward zero, saturating, NaN to 0.
as_uint(x, max) ==
    CASE x.k = "nan" -> 0
      [] x.k = "inf" -> IF x.neg THEN 0 ELSE max
      [] x.k = "fin" -> IF x.neg THEN 0 ELSE IF x.ip > max THEN max ELSE x.ip

U8Max == 255

\* u32::MAX is 4294967295, which is beyond the integers of the model checker;
\* the largest of those stands in for it.  Only an infinity or a duration of
\* more than 2^31 hours could tell the two apart.
U32Max == 2147483647

as_u8(x) == as_uint(x, U8Max)
as_u32(x) == as_uint(x, U32Max)

\* format!("{}", n) for an unsigned n: its decimal digits.
DigitChars == <<"0", "1", "2", "3", "4", "5", "6", "7", "8", "9">>

RECURSIVE to_string(_)
to_string(n) ==
    IF n < 10 THEN <<DigitChars[n + 1]>>
    ELSE to_string(n \div 10) \o <<DigitChars[(n % 10) + 1]>>

----------------------------------------------------------------------------
(* Telemetry reader *)

(* /sys/class/power_supply is None when read_dir fails, and otherwise the  *)
(* entries in the order read_dir yields them.  An entry is a record of its *)
(* attribute files.  A text attribute (type, status) is None when it       *)
(* cannot be read and Some(text) otherwise.  A numeric attribute is None   *)
(* when it cannot be read; otherwise it holds what its trimmed text is as  *)
(* a decimal integer: Some(None) for a text that is no number and          *)
(* Some(Some(n)) for the digits of the integer n.                          *)

Battery   == <<"B","a","t","t","e","r","y">>
Charging  == <<"C","h","a","r","g","i","n","g">>
Unknown   == <<"U","n","k","n","o","w","n">>

\* str::parse::<u8> of a numeric attribute: Ok for 0..=255 only.
parse_u8(file) ==
    IF file = None THEN None
    ELSE IF Unwrap(file) = None THEN None
    ELSE IF Unwrap(Unwrap(file)) \in 0..U8Max THEN Some(Unwrap(Unwrap(file)))
    ELSE None

\* str::parse::<f64> of a numeric attribute.
parse_f64(file) ==
    IF file = None THEN None
    ELSE IF Unwrap(file) = None THEN None
    ELSE Some(from_int(Unwrap(Unwrap(file))))

\* The closure of lines 155-167.
health(bat) ==
    LET full   == parse_f64(bat.energy_full)
        design == parse_f64(bat.energy_full_design)
    IN IF full = None THEN None
       ELSE IF design = None THEN None
       ELSE Some(as_u8(f64_mul(f64_div(Unwrap(full), Unwrap(design)), 100)))

\* The closure of lines 170-210 that gives up on a power_now of zero only.
time_remaining_nonzero(bat, status) ==
    LET power_now == parse_f64(bat.power_now)
        full      == parse_f64(bat.energy_full)
        now       == parse_f64(bat.energy_now)
        energy    == IF status = Charging
                     THEN f64_sub(Unwrap(full), Unwrap(now))
                     ELSE Unwrap(now)
        hours     == f64_div(energy, Unwrap(power_now))
        h         == as_u32(hours)
        m         == as_u32(f64_mul(f64_sub(hours, from_int(h)), 60))
    IN IF power_now = None THEN None
       ELSE IF IntOf(Unwrap(power_now)) = 0 THEN None
       ELSE IF status = Charging /\ full = None THEN None
       ELSE IF now = None THEN None
       ELSE IF status = Charging
       THEN Some(to_string(h) \o <<"h"," ">> \o to_string(m)
                 \o <<"m"," ","u","n","t","i","l"," ","f","u","l","l">>)
       ELSE Some(to_string(h) \o <<"h"," ">> \o to_string(m)
                 \o <<"m"," ","r","e","m","a","i","n","i","n","g">>)

\* The closure of lines 170-210.
time_remaining(bat, status) ==
    LET power_now == parse_f64(bat.power_now)
        full      == parse_f64(bat.energy_full)
        now       == parse_f64(bat.energy_now)
        energy    == IF status = Charging
                     THEN f64_sub(Unwrap(full), Unwrap(now))
                     ELSE Unwrap(now)
        hours     == f64_div(energy, Unwrap(power_now))
        h         == as_u32(hours)
        m         == as_u32(f64_mul(f64_sub(hours, from_int(h)), 60))
    IN IF power_now = None THEN None
       ELSE IF IntOf(Unwrap(power_now)) <= 0 THEN None
       ELSE IF status = Charging /\ full = None THEN None
       ELSE IF now = None THEN None
       ELSE IF status = Charging
       THEN Some(to_string(h) \o <<"h"," ">> \o to_string(m)
                 \o <<"m"," ","u","n","t","i","l"," ","f","u","l","l">>)
       ELSE Some(to_string(h) \o <<"h"," ">> \o to_string(m)
                 \o <<"m"," ","r","e","m","a","i","n","i","n","g">>)

\* Whether a directory entry is the battery find_map looks for.
is_battery(entry) ==
    entry.type # None /\ trim(Unwrap(entry.type)) = Battery

\* read_battery_info() that needs the status as it needs the capacity.
read_battery_info_strict(dir) ==
    IF dir = None THEN None
    ELSE LET entries == Unwrap(dir)
             found   == {i \in 1..Len(entries) : is_battery(entries[i])}
         IN
         IF found = {} THEN None
         ELSE LET bat      == entries[CHOOSE i \in found : \A l \in found : i <= l]
                  capacity == parse_u8(bat.capacity)
              IN IF capacity = None \/ bat.status = None THEN None
                 ELSE Some([capacity       |-> Unwrap(capacity),
                            status         |-> trim(Unwrap(bat.status)),
                            health         |-> health(bat),
                            time_remaining |-> time_remaining(bat, trim(Unwrap(bat.status)))])

read_battery_info(dir) ==
    IF dir = None THEN None
    ELSE LET entries == Unwrap(dir)
             found   == {i \in 1..Len(entries) : is_battery(entries[i])}
         IN
         IF found = {} THEN None
         ELSE LET bat      == entries[CHOOSE i \in found : \A l \in found : i <= l]
                  capacity == parse_u8(bat.capacity)
                  status   == IF bat.status = None THEN Unknown
                              ELSE trim(Unwrap(bat.status))
              IN IF capacity = None THEN None
                 ELSE Some([capacity       |-> Unwrap(capacity),
                            status         |-> status,
                            health         |-> health(bat),
                            time_remaining |-> time_remaining(bat, status)])

----------------------------------------------------------------------------
(* Application state *)

\* The index refresh() gives the cursor for the profile `current`: the first
\* i with all()[i] == current.
index_of(current) ==
    CHOOSE i \in 0..(Len(all) - 1) :
        all[i + 1] = current /\ \A l \in 0..(i - 1) : all[l + 1] # current

\* refresh() that reads the files and leaves the cursor where it is.
refresh_keeps_cursor(dir, gov) ==
    /\ power_supply' = dir
    /\ scaling_governor' = gov
    /\ battery' = read_battery_info(dir)
    /\ current_profile' = read_current_governor(gov)
    /\ UNCHANGED <<selected, list_state, message>>

\* refresh() that also clears the message.
refresh_clears_message(dir, gov) ==
    LET current == read_current_governor(gov) IN
    /\ power_supply' = dir
    /\ scaling_governor' = gov
    /\ battery' = read_battery_info(dir)
    /\ current_profile' = current
    /\ IF current # None
       THEN /\ selected' = index_of(Unwrap(current))
            /\ list_state' = Some(index_of(Unwrap(current)))
       ELSE UNCHANGED <<selected, list_state>>
    /\ message' = None

\* refresh() that keeps the current profile it has when it reads none.
refresh_keeps_profile(dir, gov) ==
    LET current == read_current_governor(gov) IN
    /\ power_supply' = dir
    /\ scaling_governor' = gov
    /\ battery' = read_battery_info(dir)
    /\ IF current # None
       THEN /\ current_profile' = current
            /\ selected' = index_of(Unwrap(current))
            /\ list_state' = Some(index_of(Unwrap(current)))
       ELSE UNCHANGED <<current_profile, selected, list_state>>
    /\ UNCHANGED message

\* refresh() when the power-supply directory holds `dir` and the governor
\* attribute holds `gov`.
refresh(dir, gov) ==
    LET current == read_current_governor(gov) IN
    /\ power_supply' = dir
    /\ scaling_governor' = gov
    /\ battery' = read_battery_info(dir)
    /\ current_profile' = current
    /\ IF current # None /\ \E i \in 1..Len(all) : all[i] = Unwrap(current)
       THEN /\ selected' = index_of(Unwrap(current))
            /\ list_state' = Some(index_of(Unwrap(current)))
       ELSE UNCHANGED <<selected, list_state>>
    /\ UNCHANGED message

\* move_up() that wraps around from the first row to the last.
move_up_wraps ==
    /\ IF selected > 0
       THEN /\ selected' = selected - 1
            /\ list_state' = Some(selected - 1)
       ELSE /\ selected' = Len(all) - 1
            /\ list_state' = Some(Len(all) - 1)
    /\ UNCHANGED <<battery, current_profile, message>>

move_up ==
    /\ IF selected > 0
       THEN /\ selected' = selected - 1
            /\ list_state' = Some(selected - 1)
       ELSE UNCHANGED <<selected, list_state>>
    /\ UNCHANGED <<battery, current_profile, message>>

\* move_down() that moves the cursor and leaves the row of the list alone.
move_down_stale_row ==
    /\ IF selected < Len(all) - 1
       THEN selected' = selected + 1
       ELSE UNCHANGED selected
    /\ UNCHANGED <<battery, current_profile, list_state, message>>

\* move_down() whose bound is the length of the list, not its last index.
move_down_off_by_one ==
    /\ IF selected < Len(all)
       THEN /\ selected' = selected + 1
            /\ list_state' = Some(selected + 1)
       ELSE UNCHANGED <<selected, list_state>>
    /\ UNCHANGED <<battery, current_profile, message>>

move_down ==
    /\ IF selected < Len(all) - 1
       THEN /\ selected' = selected + 1
            /\ list_state' = Some(selected + 1)
       ELSE UNCHANGED <<selected, list_state>>
    /\ UNCHANGED <<battery, current_profile, message>>

\* select_profile() that marks the profile as current before it knows the
\* outcome of the command.
select_profile_eager(outcome) ==
    LET profile == all[selected + 1]
        result  == set_governor(governor(profile), outcome)
    IN
    /\ sudo' = Some([args |-> command_args(governor(profile)), outcome |-> outcome])
    /\ invocations' = invocations + 1
    /\ current_profile' = Some(profile)
    /\ IF result.ok
       THEN message' = Some(<<"S","w","i","t","c","h","e","d"," ","t","o"," ">>
                            \o name(profile))
       ELSE message' = Some(<<"E","r","r","o","r",":"," ">> \o result.err)
    /\ UNCHANGED <<battery, selected, list_state>>

\* select_profile() that applies the first profile whatever the cursor.
select_profile_first(outcome) ==
    LET profile == all[1]
        result  == set_governor(governor(profile), outcome)
    IN
    /\ sudo' = Some([args |-> command_args(governor(profile)), outcome |-> outcome])
    /\ invocations' = invocations + 1
    /\ IF result.ok
       THEN /\ current_profile' = Some(profile)
            /\ message' = Some(<<"S","w","i","t","c","h","e","d"," ","t","o"," ">>
                               \o name(profile))
       ELSE /\ message' = Some(<<"E","r","r","o","r",":"," ">> \o result.err)
            /\ UNCHANGED current_profile
    /\ UNCHANGED <<battery, selected, list_state>>

\* select_profile() that runs the command a second time when it failed.
select_profile_retry(outcome) ==
    LET profile == all[selected + 1]
        result  == set_governor(governor(profile), outcome)
    IN
    /\ sudo' = Some([args |-> command_args(governor(profile)), outcome |-> outcome])
    /\ invocations' = invocations + (IF result.ok THEN 1 ELSE 2)
    /\ IF result.ok
       THEN /\ current_profile' = Some(profile)
            /\ message' = Some(<<"S","w","i","t","c","h","e","d"," ","t","o"," ">>
                               \o name(profile))
       ELSE /\ message' = Some(<<"E","r","r","o","r",":"," ">> \o result.err)
            /\ UNCHANGED current_profile
    /\ UNCHANGED <<battery, selected, list_state>>

\* select_profile() when running the command comes to `outcome`.
select_profile(outcome) ==
    LET profile == all[selected + 1]
        result  == set_governor(governor(profile), outcome)
    IN
    /\ sudo' = Some([args |-> command_args(governor(profile)), outcome |-> outcome])
    /\ invocations' = invocations + 1
    /\ IF result.ok
       THEN /\ current_profile' = Some(profile)
            /\ message' = Some(<<"S","w","i","t","c","h","e","d"," ","t","o"," ">>
                               \o name(profile))
       ELSE /\ message' = Some(<<"E","r","r","o","r",":"," ">> \o result.err)
            /\ UNCHANGED current_profile
    /\ UNCHANGED <<battery, selected, list_state>>

----------------------------------------------------------------------------
(* Render pass *)

\* What ui() hands to Gauge::ratio for the snapshot `bat`.
ratio(bat) == f64_div(from_int(bat.capacity), from_int(100))

\* (0.0..=1.0).contains(&x), the range Gauge::ratio asserts.
in_unit_range(x) ==
    x.k = "fin" /\ (IsZero(x) \/ (~x.neg /\ (x.ip = 0 \/ (x.ip = 1 /\ IsIntegral(x)))))

\* Whether ui() panics: Gauge::ratio panics on a ratio outside [0, 1].  The
\* other widgets take what the state holds as it is.
ui_panics == battery # None /\ ~in_unit_range(ratio(Unwrap(battery)))

----------------------------------------------------------------------------
(* What sysfs can hold *)

MaxEnergy == 7      \* the energy and power attributes hold -1 .. MaxEnergy
MaxPad == 1         \* white space around the governor text: up to MaxPad characters

NumFile(S) == {None, Some(None)} \cup {Some(Some(n)) : n \in S}

Entry(type, capacity, status, energy_full, energy_full_design, power_now, energy_now) ==
    [type |-> type, capacity |-> capacity, status |-> status,
     energy_full |-> energy_full, energy_full_design |-> energy_full_design,
     power_now |-> power_now, energy_now |-> energy_now]

\* The entry of a mains adapter: a type and no battery attribute.
Mains == Entry(Some(<<"M","a","i","n","s","\n">>), None, None, None, None, None, None)

BatteryType == Some(Battery \o <<"\n">>)

StatusTexts ==
    { Charging \o <<"\n">>,
      <<"D","i","s","c","h","a","r","g","i","n","g","\n">>,
      <<"F","u","l","l","\n">>,
      <<"c","h","a","r","g","i","n","g","\n">> }

EnergyFiles == NumFile(-1..MaxEnergy)

\* Batteries whose energy and power attributes take every value, with the
\* capacity and the status of a battery in use.
EnergyBatteries ==
    { Entry(BatteryType, Some(Some(50)), Some(st), ef, efd, pn, en) :
        st \in { Charging \o <<"\n">>,
                 <<"D","i","s","c","h","a","r","g","i","n","g","\n">> },
        ef \in EnergyFiles, efd \in EnergyFiles, pn \in EnergyFiles, en \in EnergyFiles }

\* Batteries whose type, capacity and status take every value, with energy
\* and power attributes that are all there or all missing.
CapacityBatteries ==
    { Entry(ty, cap, st, e, e, e, e) :
        ty  \in {None, BatteryType, Some(Battery), Some(<<" ">> \o Battery \o <<" ","\n">>),
                 Some(<<"b","a","t","t","e","r","y","\n">>)},
        cap \in NumFile({-1, 0, 20, 100, 101, U8Max, U8Max + 1}),
        st  \in {None} \cup {Some(t) : t \in StatusTexts},
        e   \in {None, Some(Some(MaxEnergy))} }

TelemetryDirs ==
    {None, Some(<<>>), Some(<<Mains>>)}
    \cup {Some(<<b>>) : b \in EnergyBatteries \cup CapacityBatteries}
    \cup {Some(<<Mains, b>>) : b \in CapacityBatteries}

Pads == UNION {[1..n -> WhiteSpace] : n \in 0..MaxPad}

GovernorTexts ==
    { governor(p) : p \in Profile }
    \cup { <<>>,
           <<"o","n","d","e","m","a","n","d">>,
           <<"P","e","r","f","o","r","m","a","n","c","e">>,
           <<"P","O","W","E","R","S","A","V","E">>,
           <<"p","o","w","e","r"," ","s","a","v","e">>,
           <<"p","o","w","e","r","s","a","v","e","r">>,
           <<"c","h","e","d","u","t","i","l">> }

GovernorFiles ==
    {None} \cup {Some(pre \o t \o post) : pre \in Pads, t \in GovernorTexts, post \in Pads}

\* What the running application is given to read: a few of the directories
\* and the governor texts as the kernel writes them, with a newline.
AppDirs ==
    { Some(<<Mains>>),
      Some(<<Mains, Entry(BatteryType, Some(Some(80)),
                          Some(<<"D","i","s","c","h","a","r","g","i","n","g","\n">>),
                          Some(Some(4)), Some(Some(5)), Some(Some(3)), Some(Some(2)))>>),
      Some(<<Entry(BatteryType, Some(Some(100)), Some(Charging \o <<"\n">>),
                   Some(Some(5)), Some(Some(5)), Some(Some(0)), Some(Some(5)))>>),
      Some(<<Entry(BatteryType, Some(None), None, None, None, None, None)>>),
      Some(<<Entry(BatteryType, Some(Some(101)), None, None, None, None, None)>>) }

AppGovernors ==
    {None} \cup {Some(governor(p) \o <<"\n">>) : p \in Profile}
    \cup {Some(<<"o","n","d","e","m","a","n","d","\n">>)}

----------------------------------------------------------------------------
(* Event loop *)

MaxPresses == 2     \* the loop reads up to MaxPresses presses of a select key

KeyCodes == {"q", "Esc", "j", "Down", "k", "Up", "Enter", " ", "r", "x"}

\* App::new() that returns the struct as the literal built it, with no
\* refresh().
new_without_refresh ==
    /\ pc = "new"
    /\ pc' = "loop"
    /\ UNCHANGED <<battery, current_profile, selected, list_state, message,
                   power_supply, scaling_governor, sudo, invocations, presses, key>>

\* The rest of App::new() after the struct literal and
\* list_state.select(Some(0)): a refresh() of what sysfs holds when the
\* program starts.
new ==
    /\ pc = "new"
    /\ refresh(power_supply, scaling_governor)
    /\ pc' = "loop"
    /\ UNCHANGED <<sudo, invocations, presses, key>>

\* One turn of the loop of main(): draw, poll, and the arm of the match the
\* key takes.  The turn gets past the draw when ui() does not panic.
Quit ==
    /\ pc = "loop"
    /\ ~ui_panics
    /\ \E c \in {"q", "Esc"} : key' = c
    /\ pc' = "exit"
    /\ UNCHANGED <<battery, current_profile, selected, list_state, message,
                   power_supply, scaling_governor, sudo, invocations, presses>>

Down ==
    /\ pc = "loop"
    /\ ~ui_panics
    /\ \E c \in {"j", "Down"} : key' = c
    /\ move_down
    /\ UNCHANGED <<power_supply, scaling_governor, sudo, invocations, presses, pc>>

Up ==
    /\ pc = "loop"
    /\ ~ui_panics
    /\ \E c \in {"k", "Up"} : key' = c
    /\ move_up
    /\ UNCHANGED <<power_supply, scaling_governor, sudo, invocations, presses, pc>>

Select ==
    /\ pc = "loop"
    /\ ~ui_panics
    /\ presses < MaxPresses
    /\ \E c \in {"Enter", " "} : key' = c
    /\ presses' = presses + 1
    /\ \E outcome \in Outcomes : select_profile(outcome)
    /\ UNCHANGED <<power_supply, scaling_governor, pc>>

Refresh ==
    /\ pc = "loop"
    /\ ~ui_panics
    /\ key' = "r"
    /\ \E dir \in AppDirs, gov \in AppGovernors : refresh(dir, gov)
    /\ UNCHANGED <<sudo, invocations, presses, pc>>

\* The key handled and the loop left as it was: a key with no arm.
Other ==
    /\ pc = "loop"
    /\ ~ui_panics
    /\ \E c \in KeyCodes \ {"q", "Esc", "j", "Down", "k", "Up", "Enter", " ", "r"} :
          key' = c
    /\ UNCHANGED <<battery, current_profile, selected, list_state, message,
                   power_supply, scaling_governor, sudo, invocations, presses, pc>>

\* terminal.draw() calls ui(), which panics: the loop is left by unwinding.
Panic ==
    /\ pc = "loop"
    /\ ui_panics
    /\ pc' = "panic"
    /\ UNCHANGED <<battery, current_profile, selected, list_state, message,
                   power_supply, scaling_governor, sudo, invocations, presses, key>>

\* poll() times out, or the event is no key press.
Idle ==
    /\ pc = "loop"
    /\ ~ui_panics
    /\ UNCHANGED vars

----------------------------------------------------------------------------
(* Specifications *)

\* main() at `let mut app = App::new()`, inside new() before its refresh():
\* the struct literal of lines 72-78 and list_state.select(Some(0)).
Start(dirs, govs) ==
    /\ battery = None
    /\ current_profile = None
    /\ selected = 0
    /\ list_state = Some(0)
    /\ message = None
    /\ power_supply \in dirs
    /\ scaling_governor \in govs
    /\ sudo = None
    /\ invocations = 0
    /\ presses = 0
    /\ key = "none"
    /\ pc = "new"

\* The application: construction, then the event loop.
Init == Start(AppDirs, AppGovernors)

Next == new \/ Quit \/ Down \/ Up \/ Select \/ Refresh \/ Other \/ Idle \/ Panic

Spec == Init /\ [][Next]_vars

\* The telemetry reader on every directory of TelemetryDirs.
InitTelemetry == Start(TelemetryDirs, {None})

NextTelemetry == new

SpecTelemetry == InitTelemetry /\ [][NextTelemetry]_vars

\* The registry on every governor text of GovernorFiles.
InitRegistry == Start({None}, GovernorFiles)

NextRegistry == new

SpecRegistry == InitRegistry /\ [][NextRegistry]_vars

----------------------------------------------------------------------------
(* Properties of the application state *)

Failed(outcome) == ~(outcome.launched /\ outcome.success)

\* The loop calls select_profile() on these keys and on no other, so a step
\* that reads one of them and changes the state is a select_profile(), and
\* sudo then records the command it ran.
SelectKeys == {"Enter", " "}

\* C1: when select_profile() runs and the privileged command fails (it cannot
\* be launched, or it exits with a status that is not success),
\* current_profile, the cursor and the battery snapshot keep their values and
\* message becomes a text that is not empty.
C1_FailedSelectKeepsProfile ==
    [][(key' \in SelectKeys /\ Failed(Unwrap(sudo').outcome))
          => /\ current_profile' = current_profile
             /\ selected' = selected
             /\ battery' = battery
             /\ message' # None
             /\ Len(Unwrap(message')) > 0]_vars

\* A failed select_profile() has run while no profile was current.
C1_Witness ==
    /\ key \in SelectKeys
    /\ sudo # None
    /\ Failed(Unwrap(sudo).outcome)
    /\ current_profile = None
    /\ message # None

\* C2: when select_profile() runs with the cursor at index i and the command
\* exits with success, current_profile becomes Some(all()[i]), the command was
\* given -n cpupower frequency-set -g and that profile's governor identifier,
\* message is "Switched to " and that profile's display name, and the cursor
\* stays at i.
C2_SuccessfulSelectSetsProfile ==
    [][(key' \in SelectKeys /\ ~Failed(Unwrap(sudo').outcome))
          => LET p == all[selected + 1] IN
             /\ current_profile' = Some(p)
             /\ Unwrap(sudo').args =
                   << <<"-","n">>, <<"c","p","u","p","o","w","e","r">>,
                      <<"f","r","e","q","u","e","n","c","y","-","s","e","t">>,
                      <<"-","g">>, governor(p) >>
             /\ message' # None
             /\ Contains(Unwrap(message'), name(p))
             /\ Contains(Unwrap(message'), <<"S","w","i","t","c","h","e","d">>)
             /\ selected' = selected]_vars

\* A successful select_profile() has run with the cursor on the last profile
\* while the governor read before was another one.
C2_Witness ==
    /\ key \in SelectKeys
    /\ sudo # None
    /\ ~Failed(Unwrap(sudo).outcome)
    /\ selected = 2
    /\ current_profile = Some("Performance")
    /\ scaling_governor = Some(governor("PowerSaver") \o <<"\n">>)

\* C3: in every state the cursor is an index of the profile list:
\* 0 <= selected < 3.
C3_CursorInBounds ==
    selected \in 0..2 /\ selected + 1 \in DOMAIN all

\* move_down() has run with the cursor on the last row.
C3_Witness ==
    key \in {"j", "Down"} /\ selected = 2 /\ pc = "loop"

\* C4: the cursor moves by one row and stops at the ends (the loop calls
\* move_up() on k and Up, move_down() on j and Down): move_up() at 0
\* leaves it at 0 and otherwise takes 1 from it, move_down() at 2 leaves it at
\* 2 and otherwise adds 1 to it.
C4_NavigationClamped ==
    [][/\ key' \in {"k", "Up"}
          => selected' = IF selected = 0 THEN 0 ELSE selected - 1
       /\ key' \in {"j", "Down"}
          => selected' = IF selected = 2 THEN 2 ELSE selected + 1]_vars

\* move_up() has run and the cursor is on the first row.
C4_Witness ==
    key \in {"k", "Up"} /\ selected = 0 /\ list_state = Some(0)

\* The index of each profile in the fixed order.
ProfileIndex == [p \in Profile |->
    CASE p = "PowerSaver" -> 0 [] p = "Balanced" -> 1 [] p = "Performance" -> 2]

\* The governor attribute reads as the identifier of profile p.
ReadsAs(gov, p) == gov # None /\ trim(Unwrap(gov)) = governor(p)

\* C5: a refresh() (run by new() or by the key r; scaling_governor is what
\* it read) that reads the identifier of profile P from the governor
\* attribute puts the cursor on P's index (PowerSaver 0, Balanced 1,
\* Performance 2) wherever it was; a refresh() that cannot read the attribute
\* or reads no profile's identifier leaves the cursor where it was.
C5_RefreshMovesCursor ==
    [][(pc = "new" \/ key' = "r")
          => LET gov == scaling_governor' IN
             /\ \A p \in Profile : ReadsAs(gov, p) => selected' = ProfileIndex[p]
             /\ (\A p \in Profile : ~ReadsAs(gov, p)) => selected' = selected]_vars

\* The key r has run a refresh() that read "performance" and the cursor is on
\* the last row.
C5_Witness ==
    /\ key = "r"
    /\ scaling_governor = Some(governor("Performance") \o <<"\n">>)
    /\ selected = 2

\* The text select_profile() produces for the command run that sudo records.
SelectText(run) ==
    IF ~run.outcome.launched
    THEN <<"E","r","r","o","r",":"," ">> \o run.outcome.error
    ELSE IF ~run.outcome.success
    THEN <<"E","r","r","o","r",":"," ","N","e","e","d"," ","p","a","s","s","w","o","r",
           "d","l","e","s","s"," ","s","u","d","o"," ","f","o","r"," ","c","p","u","p",
           "o","w","e","r">>
    ELSE IF run.args[5] = <<"p","o","w","e","r","s","a","v","e">>
    THEN <<"S","w","i","t","c","h","e","d"," ","t","o"," ","P","o","w","e","r"," ",
           "S","a","v","e","r">>
    ELSE IF run.args[5] = <<"s","c","h","e","d","u","t","i","l">>
    THEN <<"S","w","i","t","c","h","e","d"," ","t","o"," ","B","a","l","a","n","c",
           "e","d">>
    ELSE <<"S","w","i","t","c","h","e","d"," ","t","o"," ","P","e","r","f","o","r",
           "m","a","n","c","e">>

\* C8: message is absent as long as select_profile() has never run, and
\* afterwards it is exactly the confirmation or the error text of the latest
\* select_profile(); refresh(), move_up() and move_down() leave it as it is.
C8_MessageIsLastSelectText ==
    /\ sudo = None => message = None
    /\ sudo # None => message = Some(SelectText(Unwrap(sudo)))

\* A refresh() has run after a select_profile() and the message is still there.
C8_Witness ==
    key = "r" /\ sudo # None /\ message = Some(SelectText(Unwrap(sudo)))

----------------------------------------------------------------------------
(* Properties of the profile registry *)

\* The governor attribute holds exactly the text t.
Holds(t) == pc = "loop" /\ scaling_governor = Some(t)

\* C6: from_governor(p.governor()) is Some(p) for each of the three profiles
\* p: a read of the text governor(p) resolves to p.  So the three identifiers
\* differ from one another, and all() lists the three profiles once each.
C6_RoundTrip ==
    /\ \A p \in Profile : Holds(governor(p)) => current_profile = Some(p)
    /\ \A p, q \in Profile : p # q => governor(p) # governor(q)
    /\ Len(all) = 3
    /\ {all[i] : i \in 1..Len(all)} = Profile
    /\ \A i, j \in 1..Len(all) : all[i] = all[j] => i = j

\* The text "schedutil" has been read and resolved to Balanced.
C6_Witness ==
    Holds(<<"s","c","h","e","d","u","t","i","l">>) /\ current_profile = Some("Balanced")

KnownIdentifiers ==
    { <<"p","o","w","e","r","s","a","v","e">>,
      <<"s","c","h","e","d","u","t","i","l">>,
      <<"p","e","r","f","o","r","m","a","n","c","e">> }

\* The texts that are a known identifier with white space around it.
PaddedIdentifiers ==
    {pre \o id \o post : pre \in Pads, id \in KnownIdentifiers, post \in Pads}

\* C7: from_governor(s) is absent for every s that is, white space around it
\* apart, none of "powersave", "schedutil" and "performance", in their exact
\* case: "ondemand", "Performance", "power save" and the empty text among
\* them.  The refresh() that read s then holds current_profile = None and has
\* raised no error.
C7_UnknownGovernorIsAbsent ==
    /\ \A f \in GovernorFiles :
          (pc = "loop" /\ scaling_governor = f /\ f # None
                /\ Unwrap(f) \notin PaddedIdentifiers)
          => current_profile = None /\ message = None
    /\ \A t \in { <<"o","n","d","e","m","a","n","d">>,
                  <<"P","e","r","f","o","r","m","a","n","c","e">>,
                  <<"p","o","w","e","r"," ","s","a","v","e">>,
                  <<>> } :
          Holds(t) => current_profile = None /\ message = None

\* The text "Performance" has been read and no profile is current.
C7_Witness ==
    Holds(<<"P","e","r","f","o","r","m","a","n","c","e">>) /\ current_profile = None

----------------------------------------------------------------------------
(* Properties of the telemetry reader *)

\* The entry read_battery_info() takes the attributes from: the first one of
\* type Battery.
TheBattery ==
    LET entries == Unwrap(power_supply) IN
    entries[CHOOSE i \in 1..Len(entries) :
               is_battery(entries[i]) /\ \A l \in 1..(i - 1) : ~is_battery(entries[l])]

Parseable(file) == file # None /\ Unwrap(file) # None
Number(file) == Unwrap(Unwrap(file))

\* a / b rounded to the nearest integer, for a >= 0 and b > 0.
Nearest(a, b) == (2 * a + b) \div (2 * b)

\* C9: health is round(energy_full / energy_full_design * 100), to the
\* nearest integer, for every pair of values that parse, and absent when one
\* of the two attributes is missing or does not parse.  Stated here for the
\* values of a battery in use, 0 <= energy_full <= energy_full_design and
\* energy_full_design > 0.
C9_HealthIsRounded ==
    (pc = "loop" /\ battery # None)
    => LET full   == TheBattery.energy_full
           design == TheBattery.energy_full_design
       IN IF Parseable(full) /\ Parseable(design)
          THEN (0 <= Number(full) /\ Number(full) <= Number(design) /\ Number(design) > 0)
               => Unwrap(battery).health = Some(Nearest(100 * Number(full), Number(design)))
          ELSE Unwrap(battery).health = None

\* C10: for power_now > 0, time_remaining is "<H>h <M>m <suffix>" with
\* energy = energy_full - energy_now and "until full" when the status is
\* exactly "Charging", energy = energy_now and "remaining" for any other
\* status, hours = energy / power_now, H = floor(hours) and
\* M = round((hours - H) * 60).  Stated here for energy >= 0.
C10_TimeRemainingIsRounded ==
    (pc = "loop" /\ battery # None /\ Parseable(TheBattery.power_now)
        /\ Number(TheBattery.power_now) > 0 /\ Parseable(TheBattery.energy_now)
        /\ (Unwrap(battery).status = Charging => Parseable(TheBattery.energy_full)))
    => LET charging == Unwrap(battery).status = Charging
           power    == Number(TheBattery.power_now)
           energy   == IF charging
                       THEN Number(TheBattery.energy_full) - Number(TheBattery.energy_now)
                       ELSE Number(TheBattery.energy_now)
           H        == energy \div power
           M        == Nearest(60 * (energy - H * power), power)
       IN energy >= 0
          => Unwrap(battery).time_remaining =
                Some(to_string(H) \o <<"h"," ">> \o to_string(M) \o <<"m"," ">>
                     \o (IF charging THEN <<"u","n","t","i","l"," ","f","u","l","l">>
                         ELSE <<"r","e","m","a","i","n","i","n","g">>))

\* Whether read_battery_info() found a battery whose capacity parses.
HasCapacity ==
    /\ power_supply # None
    /\ \E i \in 1..Len(Unwrap(power_supply)) : is_battery(Unwrap(power_supply)[i])
    /\ Parseable(TheBattery.capacity)
    /\ Number(TheBattery.capacity) \in 0..U8Max

\* The status a battery entry is read as.
StatusOf(bat) == IF bat.status = None THEN Unknown ELSE trim(Unwrap(bat.status))

\* power_now is missing, is no number, or is zero or negative.
NoPower(bat) == ~Parseable(bat.power_now) \/ Number(bat.power_now) <= 0

\* C11: whenever power_now is missing, unparseable, zero or negative,
\* time_remaining is absent whatever status, energy_now and energy_full are,
\* and the snapshot is still returned, with the capacity and the status the
\* files give and with the health the same battery has under every other
\* content of power_now.
C11_NoPowerNoTimeRemaining ==
    (pc = "loop" /\ HasCapacity /\ NoPower(TheBattery))
    => /\ battery # None
       /\ Unwrap(battery).time_remaining = None
       /\ Unwrap(battery).capacity = Number(TheBattery.capacity)
       /\ Unwrap(battery).status = StatusOf(TheBattery)
       /\ \A pn \in EnergyFiles :
             Unwrap(battery).health = health([TheBattery EXCEPT !.power_now = pn])

\* A charging battery with every energy attribute there and a power_now of
\* zero has been read: a snapshot with a health and no time_remaining.
C11_Witness ==
    /\ pc = "loop"
    /\ HasCapacity
    /\ TheBattery.power_now = Some(Some(0))
    /\ StatusOf(TheBattery) = Charging
    /\ Parseable(TheBattery.energy_full)
    /\ Parseable(TheBattery.energy_now)
    /\ battery # None
    /\ Unwrap(battery).health # None
    /\ Unwrap(battery).time_remaining = None

\* What read_battery_info() returns for the battery `bat` alone in the
\* directory.
Reading(bat) == Unwrap(read_battery_info(Some(<<bat>>)))

C13_CapacityIsPercent ==
    battery # None => Unwrap(battery).capacity \in 0..100

\* C18: health is absent whenever it cannot be computed: when energy_full or
\* energy_full_design is missing or does not parse, and also when
\* energy_full_design parses to 0, where the ratio is a division by zero and
\* no finite percentage; no placeholder or saturated value such as 0 or 255
\* stands in for it.
C18_HealthAbsentWhenNotComputable ==
    (pc = "loop" /\ battery # None)
    => LET full   == TheBattery.energy_full
           design == TheBattery.energy_full_design
       IN (~Parseable(full) \/ ~Parseable(design) \/ Number(design) = 0)
          => Unwrap(battery).health = None

----------------------------------------------------------------------------
(* Properties of the event loop *)

\* C14: the privileged command is run by select_profile() only, once for
\* each call whether it succeeds or fails, and never by App::new(),
\* refresh(), move_up(), move_down() or a turn of the loop that only
\* renders: a step runs the command exactly once when it reads a select key
\* and not at all otherwise, so that the number of runs is always the number
\* of select key presses.
C14_CommandOncePerSelect ==
    /\ [](invocations = presses)
    /\ [][/\ key' \in SelectKeys => invocations' = invocations + 1
          /\ key' \notin SelectKeys => invocations' = invocations /\ sudo' = sudo]_vars

\* Two select keys have been read, the command of the second one failed, and
\* a refresh() followed: the command has run twice.
C14_Witness ==
    /\ presses = 2
    /\ invocations = 2
    /\ Failed(Unwrap(sudo).outcome)
    /\ key = "r"

\* The keys that have an arm of their own in the match of the loop.
CommandKeys == {"q", "Esc", "j", "Down", "k", "Up", "Enter", " ", "r"}

\* C15: nothing the core meets ends the event loop but a quit key: the loop
\* is left only by a step that reads 'q' or Esc, whatever the battery, the
\* telemetry fields, the governor and the outcome of the command are; and a
\* key outside the command set leaves the application state as it is.
C15_OnlyQuitEndsLoop ==
    [][/\ (pc = "loop" /\ pc' # "loop") => key' \in {"q", "Esc"} /\ pc' = "exit"
       /\ (pc = "loop" /\ key' \notin CommandKeys)
          => UNCHANGED <<battery, current_profile, selected, list_state, message>>]_vars

----------------------------------------------------------------------------
(* Properties of construction and refresh *)

\* App::new() has returned and the loop has read no key yet.
JustConstructed == pc = "loop" /\ key = "none"

\* C16: immediately after App::new() the cursor is 0, message is absent, and
\* battery and current_profile are what the one refresh() of the startup
\* read.
C16_InitialState ==
    JustConstructed
    => /\ selected = 0
       /\ message = None
       /\ battery = read_battery_info(power_supply)
       /\ current_profile = read_current_governor(scaling_governor)

\* C16 as the code has it: immediately after App::new() message is absent,
\* no command has been run, battery and current_profile are what the one
\* refresh() of the startup read, and the cursor is on the row of
\* current_profile when the governor read is a known one and on row 0
\* otherwise.
C16_InitialStateAmended ==
    JustConstructed
    => /\ message = None
       /\ sudo = None
       /\ battery = read_battery_info(power_supply)
       /\ current_profile = read_current_governor(scaling_governor)
       /\ selected = (IF current_profile = None THEN 0
                      ELSE ProfileIndex[Unwrap(current_profile)])

\* App::new() has returned with the governor "performance" in force: the
\* cursor is on the last row.
C16_Witness ==
    /\ JustConstructed
    /\ current_profile = Some("Performance")
    /\ selected = 2
    /\ battery # None

\* C17: refresh() derives battery and current_profile anew: after a refresh()
\* battery is what the telemetry read returns and current_profile is the
\* profile of the governor read, whatever the two fields held before, so a
\* current_profile that a successful select_profile() had set is replaced
\* by the governor read, and is None when the governor is unreadable or
\* not a known one.
C17_RefreshRederives ==
    (pc = "loop" /\ key = "r")
    => /\ battery = read_battery_info(power_supply)
       /\ \A p \in Profile :
             ReadsAs(scaling_governor, p) => current_profile = Some(p)
       /\ (\A p \in Profile : ~ReadsAs(scaling_governor, p)) => current_profile = None

\* A select_profile() switched to a profile with success, and the refresh()
\* after it could not read a known governor: no profile is current.
C17_Witness ==
    /\ pc = "loop"
    /\ key = "r"
    /\ sudo # None
    /\ ~Failed(Unwrap(sudo).outcome)
    /\ \A p \in Profile : ~ReadsAs(scaling_governor, p)
    /\ current_profile = None

\* C19: the highlighted row of the profile list is the cursor: in every
\* state after App::new(), whatever refresh(), move_up(), move_down() and
\* select_profile() have run, list_state selects Some(selected), so the
\* row shown as highlighted is the profile select_profile() would apply.
C19_HighlightIsCursor ==
    pc # "new"
    => /\ list_state = Some(selected)
       /\ all[Unwrap(list_state) + 1] = all[selected + 1]

\* The cursor was moved down to the last row after a select_profile(), and
\* the list highlights that row.
C19_Witness ==
    /\ key \in {"j", "Down"}
    /\ sudo # None
    /\ selected = 2
    /\ list_state = Some(2)

====
